---- MODULE Spec2Model ----
(***************************************************************************)
(* Sitemapper.py: a batch (wavefront) crawler.  crawl_website keeps a      *)
(* visited set, a frontier (to_visit) and four link accumulators; every    *)
(* batch is submitted to a ThreadPoolExecutor and the main thread commits  *)
(* the results one by one in completion order (as_completed).              *)
(*                                                                         *)
(* A URL is the record urlparse gives for it: scheme, hostname (a sequence *)
(* of characters, already lower-cased by urlparse), path (the pieces of    *)
(* path.split("/")) and query (0 = no query string).                       *)
(***************************************************************************)
EXTENDS Integers, Sequences, FiniteSets, TLC

VARIABLES
    start_url, max, depth, thread_count,   \* arguments: url, -m, -d, -t
    visited, to_visit,                     \* crawl_website locals, lines 104-105
    all_internal, all_external,            \* lines 107-108
    mailto_links, non_html_links,          \* lines 109-110
    done,                                  \* line 128
    current_batch, futures,                \* lines 133, 136
    pc,                                    \* position of the main thread
    extracted,                             \* history: raw links returned by extract_links
    submitted,                             \* history: URLs ever given to executor.submit
    fresh,                                 \* number of never-seen URLs the site has served
    site,                                  \* the pages of a site that answers every request alike
    p_pc, p_url, p_links, p_ret            \* the pure-function harness

vars == << start_url, max, depth, thread_count, visited, to_visit,
           all_internal, all_external, mailto_links, non_html_links, done,
           current_batch, futures, pc, extracted, submitted, fresh, site,
           p_pc, p_url, p_links, p_ret >>

pure_vars == << p_pc, p_url, p_links, p_ret >>

----------------------------------------------------------------------------
(* Bounds *)

MaxVisitedArg == 3      \* largest value of -m
MaxDepthArg == 2        \* largest value of -d
MaxThreads == 2         \* largest value of -t
MaxRefs == 2            \* references on one page
MaxFanout == 2          \* never-seen links on one page of the endless site
MaxFreshVisited == 2    \* largest value of -m for the crawl of the endless site
MaxHostLen == 6         \* characters of a hostname given to get_hostname
MaxBaseLen == 1         \* characters of the seed's bare hostname given to split_links
MaxSegments == 2        \* "/"-separated pieces after the first "/" of a path given to extract_directories

----------------------------------------------------------------------------
(* Strings as sequences of characters *)

Str(n, alphabet) == UNION { [1..k -> alphabet] : k \in 0..n }

startswith(s, p) == Len(s) >= Len(p) /\ SubSeq(s, 1, Len(p)) = p

RECURSIVE lstrip(_, _)
lstrip(s, chars) ==
    IF s # << >> /\ Head(s) \in chars THEN lstrip(Tail(s), chars) ELSE s

WWW == << "w", "w", "w", "." >>

CharsOf(s) == { s[i] : i \in 1..Len(s) }

----------------------------------------------------------------------------
(* URL classifier, lines 75-98 *)

URL(h, p, q) == [scheme |-> "https", host |-> h, path |-> p, query |-> q]

get_hostname(url) ==
    LET hostname == url.host
    IN  IF startswith(hostname, WWW) THEN lstrip(hostname, CharsOf(WWW)) ELSE hostname

split_links(base_url, links) ==
    LET base_host == get_hostname(base_url)
    IN  [ internal |-> { link \in links : get_hostname(link) = base_host },
          external |-> { link \in links : get_hostname(link) # base_host } ]

get_path_depth(url) ==
    Cardinality({ i \in 1..Len(url.path) : url.path[i] # "" })

----------------------------------------------------------------------------
(* Link extractor, lines 18-69.  A response is what requests.get does:     *)
(* raise (RequestException or another exception) or return a status code,  *)
(* a Content-Type and a body; the body is the set of references            *)
(* soup.find_all yields.  A reference is its text: a scheme prefix and,    *)
(* for a link, the URL it names (relative to the page when rel).           *)

Ref(prefix, rel, target) == [prefix |-> prefix, rel |-> rel, target |-> target]

NonHtmlPrefixes == { "SMS:", "tel:", "javascript:", "data:", "#" }

urljoin(url, ref) ==
    IF ref.rel THEN [ref.target EXCEPT !.scheme = url.scheme, !.host = url.host]
    ELSE ref.target

EmptyExtract == [raised |-> FALSE, links |-> {}, mailtos |-> {}, non_htmls |-> {}]

\* lines 18-69 without the status test of lines 31-34
extract_links_any_status(url, resp) ==
    IF resp.kind = "RequestException" THEN EmptyExtract
    ELSE IF resp.kind = "Exception" THEN [EmptyExtract EXCEPT !.raised = TRUE]
    ELSE IF ~resp.html THEN EmptyExtract
    ELSE [ raised    |-> FALSE,
           links     |-> { urljoin(url, r) :
                             r \in { x \in resp.refs :
                                       x.prefix \notin NonHtmlPrefixes \cup {"mailto:"} } },
           mailtos   |-> { r \in resp.refs : r.prefix = "mailto:" },
           non_htmls |-> { r \in resp.refs : r.prefix \in NonHtmlPrefixes } ]

extract_links(url, resp) ==
    IF resp.kind = "RequestException" THEN EmptyExtract
    ELSE IF resp.kind = "Exception" THEN [EmptyExtract EXCEPT !.raised = TRUE]
    ELSE IF ~(200 <= resp.status /\ resp.status < 400) THEN EmptyExtract
    ELSE IF ~resp.html THEN EmptyExtract
    ELSE [ raised    |-> FALSE,
           links     |-> { urljoin(url, r) :
                             r \in { x \in resp.refs :
                                       x.prefix \notin NonHtmlPrefixes \cup {"mailto:"} } },
           mailtos   |-> { r \in resp.refs : r.prefix = "mailto:" },
           non_htmls |-> { r \in resp.refs : r.prefix \in NonHtmlPrefixes } ]

----------------------------------------------------------------------------
(* process_url, lines 113-126 *)

Result(url, internal, external, mailtos, non_htmls) ==
    [ url |-> url, internal |-> internal, external |-> external,
      mailtos |-> mailtos, non_htmls |-> non_htmls ]

EmptyResult(url) == Result(url, {}, {}, {}, {})

SameHost(url, seed) == get_hostname(url) = get_hostname(seed)

process_url(url, seed, resp) ==
    IF ~SameHost(url, seed) THEN EmptyResult(url)
    ELSE LET e == extract_links(url, resp)
             s == split_links(seed, e.links)
         IN  IF e.raised THEN EmptyResult(url)
             ELSE Result(url, s.internal, s.external, e.mailtos, e.non_htmls)

\* what happened to the request of a task: "skipped" when line 114 returned
\* before any request was made
Outcome(url, seed, resp) ==
    IF ~SameHost(url, seed) THEN "skipped"
    ELSE IF resp.kind # "response" THEN resp.kind
    ELSE IF ~(200 <= resp.status /\ resp.status < 400) THEN "status"
    ELSE IF ~resp.html THEN "content_type"
    ELSE "ok"

----------------------------------------------------------------------------
(* The web the crawl runs against *)

HostA == << "a" >>
HostWwwA == WWW \o << "a" >>
HostWwwWa == WWW \o << "w", "a" >>
HostSub == << "a", ".", "a" >>

Root == << "", "" >>                \* "/"
PathX == << "", "x" >>              \* "/x"
PathXY == << "", "x", "y" >>        \* "/x/y"

NoURL == URL(<< >>, << "" >>, 0)

Seeds == { URL(HostWwwA, Root, 0), URL(HostA, PathXY, 0) }

CrawlRefs ==
    { Ref("", FALSE, URL(HostWwwWa, PathX, 0)),     \* href="https://www.wa/x"
      Ref("", FALSE, URL(HostA, PathXY, 0)),        \* href="https://a/x/y"
      Ref("", FALSE, URL(HostSub, Root, 0)),        \* href="https://a.a/"
      Ref("mailto:", FALSE, NoURL),                 \* href="mailto:..."
      Ref("#", FALSE, NoURL) }                      \* href="#..."

StatusCodes == { 199, 200, 399, 400 }

Bodies == { b \in SUBSET CrawlRefs : Cardinality(b) <= MaxRefs }

Response(kind, status, html, refs) ==
    [kind |-> kind, status |-> status, html |-> html, refs |-> refs]

\* a page of any status and content type may carry the largest body
Responses ==
    { Response(k, 0, FALSE, {}) : k \in { "RequestException", "Exception" } }
    \cup { Response("response", st, h, CrawlRefs) : st \in StatusCodes, h \in BOOLEAN }
    \cup { Response("response", 200, TRUE, b) : b \in Bodies }

\* no fixed site: every request is answered afresh
NoSite == [u \in {} |-> Response("response", 200, TRUE, {})]

\* the endless site: a page that links to itself with k query strings never served before
FreshResponse(n, k) ==
    Response("response", 200, TRUE,
             { Ref("", TRUE, URL(<< >>, PathX, q)) : q \in (n + 1)..(n + k) })

\* The last batch is dispatched with at most max - 1 URLs visited, and its URLs
\* come from the pages of the tasks before it: at most (max - 1) * (1 + MaxFanout)
\* tasks run, each served at most MaxFanout new URLs.  A crawl that asks for
\* more has outrun every crawl the count stop allows.
FreshCap == MaxFanout * (1 + MaxFanout) * (MaxFreshVisited - 1)

----------------------------------------------------------------------------
(* crawl_website, lines 103-162 *)

Future(state, result, outcome) ==
    [state |-> state, result |-> result, outcome |-> outcome]

Running == { u \in DOMAIN futures : futures[u].state = "running" }

\* line 146 with > for >=
StopConditionGt(m, v) == m # 0 /\ Cardinality(v) > m

\* line 146 with the truth test of args.max inverted
StopConditionInverted(m, v) == m = 0 /\ Cardinality(v) >= m

\* line 146
StopCondition(m, v) == m # 0 /\ Cardinality(v) >= m

\* line 140 with assignment for add
MarkVisitedReplace(v, url) == { url }

\* line 140
MarkVisited(v, url) == v \cup { url }

\* lines 152-155 without the depth test of line 154
EligibleNoDepth(link, v, tv, d) ==
    /\ link \notin v
    /\ link \notin tv

\* lines 152-155 without the visited test
EligibleNoVisited(link, v, tv, d) ==
    /\ link \notin tv
    /\ (d = 0 \/ get_path_depth(link) <= d)

\* lines 152-155
Eligible(link, v, tv, d) ==
    /\ link \notin v
    /\ link \notin tv
    /\ (d = 0 \/ get_path_depth(link) <= d)

\* lines 157-160 without the update
AccumulateNothing(acc, links) == acc

\* lines 157-160
Accumulate(acc, links) == acc \cup links

\* line 138 with the iteration ending after the first future
BatchDrainedAfterFirst(fs) == \E w \in DOMAIN fs : fs[w].state = "yielded"

\* line 138: as_completed is exhausted once every future of the batch was yielded
BatchDrained(fs) == \A w \in DOMAIN fs : fs[w].state = "yielded"

\* line 132
LoopCondition(tv, dn) == tv # {} /\ ~dn

InitCrawl(seeds, maxes, depths) ==
    /\ start_url \in seeds
    /\ max \in maxes
    /\ depth \in depths
    /\ thread_count \in 1..MaxThreads
    /\ visited = {}
    /\ to_visit = { start_url }
    /\ all_internal = {}
    /\ all_external = {}
    /\ mailto_links = {}
    /\ non_html_links = {}
    /\ done = FALSE
    /\ current_batch = {}
    /\ futures = [u \in {} |-> Future("pending", EmptyResult(u), "none")]
    /\ pc = "loop"
    /\ extracted = {}
    /\ submitted = {}
    /\ fresh = 0

PureOff ==
    /\ p_pc = "off"
    /\ p_url = NoURL
    /\ p_links = {}
    /\ p_ret = << >>

\* lines 132-136: snapshot the frontier, clear it, submit one task per URL
Dispatch ==
    /\ pc = "loop"
    /\ LoopCondition(to_visit, done)
    /\ current_batch' = to_visit
    /\ to_visit' = {}
    /\ futures' = [u \in to_visit |-> Future("pending", EmptyResult(u), "none")]
    /\ submitted' = submitted \cup to_visit
    /\ pc' = "as_completed"
    /\ UNCHANGED << start_url, max, depth, thread_count, visited, all_internal,
                    all_external, mailto_links, non_html_links, done, extracted,
                    fresh, pure_vars, site >>

\* a pool thread takes a submitted task; at most max_workers run at a time
WorkerStart(u) ==
    /\ u \in DOMAIN futures
    /\ futures[u].state = "pending"
    /\ Cardinality(Running) < thread_count
    /\ futures' = [futures EXCEPT ![u].state = "running"]
    /\ UNCHANGED << start_url, max, depth, thread_count, visited, to_visit,
                    all_internal, all_external, mailto_links, non_html_links,
                    done, current_batch, pc, extracted, submitted, fresh,
                    pure_vars, site >>

\* process_url adding its URL to visited itself, from the pool thread
FinishMarksVisited(u, resp) ==
    /\ u \in DOMAIN futures
    /\ futures[u].state = "running"
    /\ futures' = [futures EXCEPT ![u] =
                      Future("finished", process_url(u, start_url, resp),
                             Outcome(u, start_url, resp))]
    /\ extracted' = extracted \cup
                      (IF SameHost(u, start_url) THEN extract_links(u, resp).links ELSE {})
    /\ visited' = visited \cup { u }
    /\ UNCHANGED << start_url, max, depth, thread_count, to_visit,
                    all_internal, all_external, mailto_links, non_html_links,
                    done, current_batch, pc, submitted, pure_vars, site >>

\* the task runs process_url to its return; the future becomes done
Finish(u, resp) ==
    /\ u \in DOMAIN futures
    /\ futures[u].state = "running"
    /\ futures' = [futures EXCEPT ![u] =
                      Future("finished", process_url(u, start_url, resp),
                             Outcome(u, start_url, resp))]
    /\ extracted' = extracted \cup
                      (IF SameHost(u, start_url) THEN extract_links(u, resp).links ELSE {})
    /\ UNCHANGED << start_url, max, depth, thread_count, visited, to_visit,
                    all_internal, all_external, mailto_links, non_html_links,
                    done, current_batch, pc, submitted, pure_vars, site >>

WorkerFinish(u) ==
    /\ \E resp \in Responses : Finish(u, resp)
    /\ UNCHANGED fresh

WorkerFinishFresh(u) ==
    \E k \in 1..MaxFanout :
        /\ fresh + k <= FreshCap
        /\ Finish(u, FreshResponse(fresh, k))
        /\ fresh' = fresh + k

\* lines 138-160 with the count checked only when the batch is drained
CommitChecksAtBatchEnd(u) ==
    /\ pc = "as_completed"
    /\ u \in DOMAIN futures
    /\ futures[u].state = "finished"
    /\ LET r == futures[u].result
           v == MarkVisited(visited, r.url)
           yielded == [futures EXCEPT ![u].state = "yielded"]
       IN  /\ visited' = v
           /\ futures' = yielded
           /\ IF StopCondition(max, v) /\ BatchDrained(yielded)
              THEN /\ done' = TRUE
                   /\ pc' = "loop"
                   /\ UNCHANGED << to_visit, all_internal, all_external,
                                   mailto_links, non_html_links >>
              ELSE /\ to_visit' = to_visit \cup
                                    { link \in r.internal : Eligible(link, v, to_visit, depth) }
                   /\ all_internal' = Accumulate(all_internal, r.internal)
                   /\ all_external' = Accumulate(all_external, r.external)
                   /\ mailto_links' = Accumulate(mailto_links, r.mailtos)
                   /\ non_html_links' = Accumulate(non_html_links, r.non_htmls)
                   /\ pc' = IF BatchDrained(yielded) THEN "loop" ELSE "as_completed"
                   /\ UNCHANGED done
    /\ UNCHANGED << start_url, max, depth, thread_count, current_batch,
                    extracted, submitted, fresh, pure_vars, site >>

\* lines 138-160: the body of the as_completed loop for one completed future
Commit(u) ==
    /\ pc = "as_completed"
    /\ u \in DOMAIN futures
    /\ futures[u].state = "finished"
    /\ LET r == futures[u].result
           v == MarkVisited(visited, r.url)
           yielded == [futures EXCEPT ![u].state = "yielded"]
       IN  /\ visited' = v
           /\ futures' = yielded
           /\ IF StopCondition(max, v)
              THEN /\ done' = TRUE
                   /\ pc' = "loop"
                   /\ UNCHANGED << to_visit, all_internal, all_external,
                                   mailto_links, non_html_links >>
              ELSE /\ to_visit' = to_visit \cup
                                    { link \in r.internal : Eligible(link, v, to_visit, depth) }
                   /\ all_internal' = Accumulate(all_internal, r.internal)
                   /\ all_external' = Accumulate(all_external, r.external)
                   /\ mailto_links' = Accumulate(mailto_links, r.mailtos)
                   /\ non_html_links' = Accumulate(non_html_links, r.non_htmls)
                   /\ pc' = IF BatchDrained(yielded) THEN "loop" ELSE "as_completed"
                   /\ UNCHANGED done
    /\ UNCHANGED << start_url, max, depth, thread_count, current_batch,
                    extracted, submitted, fresh, pure_vars, site >>

\* line 132 false: leave the while loop and enter the executor's __exit__
ExitLoop ==
    /\ pc = "loop"
    /\ ~LoopCondition(to_visit, done)
    /\ pc' = "shutdown"
    /\ UNCHANGED << start_url, max, depth, thread_count, visited, to_visit,
                    all_internal, all_external, mailto_links, non_html_links,
                    done, current_batch, futures, extracted, submitted, fresh,
                    pure_vars, site >>

\* lines 131, 162: shutdown(wait=True) returns once every submitted task has run
Return ==
    /\ pc = "shutdown"
    /\ \A u \in DOMAIN futures : futures[u].state \in { "finished", "yielded" }
    /\ pc' = "returned"
    /\ UNCHANGED << start_url, max, depth, thread_count, visited, to_visit,
                    all_internal, all_external, mailto_links, non_html_links,
                    done, current_batch, futures, extracted, submitted, fresh,
                    pure_vars, site >>

Init ==
    /\ InitCrawl(Seeds, -1..MaxVisitedArg, 0..MaxDepthArg)
    /\ site = NoSite
    /\ PureOff

Next ==
    \/ Dispatch
    \/ \E u \in current_batch : WorkerStart(u)
    \/ \E u \in current_batch : WorkerFinish(u)
    \/ \E u \in current_batch : Commit(u)
    \/ ExitLoop
    \/ Return

Spec == Init /\ [][Next]_vars

----------------------------------------------------------------------------
(* The crawl of an endless site: every page fetched links to URLs never    *)
(* seen before.  Requests time out (line 25), so every task finishes, and  *)
(* the main thread is never descheduled for good: weak fairness on every   *)
(* step.                                                                   *)

InitFresh ==
    /\ InitCrawl({ URL(HostA, PathX, 0) }, 1..MaxFreshVisited, { 0 })
    /\ site = NoSite
    /\ PureOff

NextFresh ==
    \/ Dispatch
    \/ \E u \in current_batch : WorkerStart(u)
    \/ \E u \in current_batch : WorkerFinishFresh(u)
    \/ \E u \in current_batch : Commit(u)
    \/ ExitLoop
    \/ Return

FairSpecFresh == InitFresh /\ [][NextFresh]_vars /\ WF_vars(NextFresh)

----------------------------------------------------------------------------
(* The crawl of a fixed site: the response to a request is a function of   *)
(* the URL, chosen once, and -m is 0.                                      *)

SitePages ==
    { URL(HostWwwA, Root, 0), URL(HostWwwWa, PathX, 0), URL(HostA, PathXY, 0) }

\* the references to the pages of the site, and the other references
SitePageRefs == { r \in CrawlRefs : r.target \in SitePages }

SiteBodies ==
    { links \cup others : links \in SUBSET SitePageRefs,
                          others \in { {}, CrawlRefs \ SitePageRefs } }

SiteResponses ==
    { Response("response", 400, TRUE, CrawlRefs) }
    \cup { Response("response", 200, TRUE, b) : b \in SiteBodies }

InitSite ==
    /\ InitCrawl(Seeds, { 0 }, 0..MaxDepthArg)
    /\ site \in [SitePages -> SiteResponses]
    /\ PureOff

\* line 22: requests.get against the fixed site; an unknown page does not answer
fetch(u) ==
    IF u \in DOMAIN site THEN site[u] ELSE Response("RequestException", 0, FALSE, {})

WorkerFinishSite(u) ==
    /\ Finish(u, fetch(u))
    /\ UNCHANGED fresh

NextSite ==
    \/ Dispatch
    \/ \E u \in current_batch : WorkerStart(u)
    \/ \E u \in current_batch : WorkerFinishSite(u)
    \/ \E u \in current_batch : Commit(u)
    \/ ExitLoop
    \/ Return

SpecSite == InitSite /\ [][NextSite]_vars

FairSpecSite == SpecSite /\ WF_vars(NextSite)

----------------------------------------------------------------------------
(* Harness for the pure functions: Init draws the arguments, the action    *)
(* applies the function and keeps what it returned.                        *)

HostAlphabet == { "w", ".", "a" }

CrawlOff ==
    /\ start_url = NoURL
    /\ max = 0
    /\ depth = 0
    /\ thread_count = 1
    /\ visited = {}
    /\ to_visit = {}
    /\ all_internal = {}
    /\ all_external = {}
    /\ mailto_links = {}
    /\ non_html_links = {}
    /\ done = FALSE
    /\ current_batch = {}
    /\ futures = [u \in {} |-> Future("pending", EmptyResult(u), "none")]
    /\ pc = "off"
    /\ extracted = {}
    /\ submitted = {}
    /\ fresh = 0
    /\ site = NoSite

InitHostname ==
    /\ CrawlOff
    /\ p_pc = "call"
    /\ p_url \in { URL(h, Root, 0) : h \in Str(MaxHostLen, HostAlphabet) }
    /\ p_links = {}
    /\ p_ret = << >>

ApplyGetHostname ==
    /\ p_pc = "call"
    /\ p_ret' = get_hostname(p_url)
    /\ p_pc' = "get_hostname"
    /\ UNCHANGED << start_url, max, depth, thread_count, visited, to_visit,
                    all_internal, all_external, mailto_links, non_html_links,
                    done, current_batch, futures, pc, extracted, submitted,
                    fresh, site, p_url, p_links >>

NextHostname == ApplyGetHostname

SpecHostname == InitHostname /\ [][NextHostname]_vars

BaseHosts ==
    UNION { { h, WWW \o h } : h \in Str(MaxBaseLen, HostAlphabet) }

InitSplit ==
    /\ CrawlOff
    /\ p_pc = "call"
    /\ p_url \in { URL(b, Root, 0) : b \in BaseHosts }
    /\ \E h \in Str(MaxHostLen, HostAlphabet) :
          p_links = { URL(h, PathX, 0), URL(p_url.host, PathXY, 0) }
    /\ p_ret = << >>

ApplySplitLinks ==
    /\ p_pc = "call"
    /\ p_ret' = split_links(p_url, p_links)
    /\ p_pc' = "split_links"
    /\ UNCHANGED << start_url, max, depth, thread_count, visited, to_visit,
                    all_internal, all_external, mailto_links, non_html_links,
                    done, current_batch, futures, pc, extracted, submitted,
                    fresh, site, p_url, p_links >>

NextSplit == ApplySplitLinks

SpecSplit == InitSplit /\ [][NextSplit]_vars

\* extract_links on one fetched page: p_url is the page, p_links the response
SchemeRef(prefix, scheme) ==
    Ref(prefix, FALSE, [scheme |-> scheme, host |-> << >>, path |-> << "1" >>, query |-> 0])

ExtractRefs ==
    { SchemeRef("sms:", "sms"),                     \* href="sms:1"
      SchemeRef("SMS:", "sms"),                     \* href="SMS:1"
      SchemeRef("tel:", "tel"),                     \* href="tel:1"
      SchemeRef("javascript:", "javascript"),       \* href="javascript:1"
      SchemeRef("data:", "data"),                   \* src="data:1"
      Ref("#", FALSE, NoURL),                       \* href="#..."
      Ref("mailto:", FALSE, NoURL),                 \* href="mailto:..."
      Ref("", TRUE, URL(<< >>, PathX, 0)),          \* href="/x"
      Ref("", FALSE, URL(HostSub, Root, 0)) }       \* href="https://a.a/"

InitExtract ==
    /\ CrawlOff
    /\ p_pc = "call"
    /\ p_url \in { URL(HostWwwA, Root, 0), URL(HostA, PathXY, 0) }
    /\ p_links \in { Response("response", 200, TRUE, b) :
                       b \in { x \in SUBSET ExtractRefs : Cardinality(x) <= MaxRefs } }
    /\ p_ret = << >>

ApplyExtractLinks ==
    /\ p_pc = "call"
    /\ p_ret' = extract_links(p_url, p_links)
    /\ p_pc' = "extract_links"
    /\ UNCHANGED << start_url, max, depth, thread_count, visited, to_visit,
                    all_internal, all_external, mailto_links, non_html_links,
                    done, current_batch, futures, pc, extracted, submitted,
                    fresh, site, p_url, p_links >>

NextExtract == ApplyExtractLinks

SpecExtract == InitExtract /\ [][NextExtract]_vars

\* Reporter, lines 166-177.  A link is the text of a URL by its parts: scheme,
\* hostname, port (0 = none), path pieces and query (0 = none); the directory
\* URL is the text "scheme://hostname" followed by the path.
Link(h, port, p, q) ==
    [scheme |-> "https", host |-> h, port |-> port, path |-> p, query |-> q]

endswith_slash(path) == Len(path) >= 2 /\ path[Len(path)] = ""

\* path.rsplit("/", 1)[0]
rsplit_head(path) ==
    IF Len(path) >= 2 THEN SubSeq(path, 1, Len(path) - 1) ELSE path

\* path + "/" for a path that does not end in "/"
append_slash(head) == IF head = << "" >> THEN << "", "" >> ELSE head \o << "" >>

directory_url(url) ==
    LET path == IF ~endswith_slash(url.path)
                THEN append_slash(rsplit_head(url.path))
                ELSE url.path
    IN  [scheme |-> url.scheme, host |-> url.host, port |-> 0,
         path |-> path, query |-> 0]

extract_directories(links) == { directory_url(url) : url \in links }

HostX == << "x" >>

DirPaths ==
    { << "" >> } \cup
    UNION { { << "" >> \o t : t \in [1..k -> { "", "a", "b" }] } : k \in 1..MaxSegments }

DirLinks ==
    { Link(HostX, port, p, q) : port \in { 0, 8080 }, p \in DirPaths, q \in { 0, 1 } }

InitDirectories ==
    /\ CrawlOff
    /\ p_pc = "call"
    /\ p_url = NoURL
    /\ p_links \in { { l1, l2 } : l1, l2 \in DirLinks }
    /\ p_ret = << >>

ApplyExtractDirectories ==
    /\ p_pc = "call"
    /\ p_ret' = extract_directories(p_links)
    /\ p_pc' = "extract_directories"
    /\ UNCHANGED << start_url, max, depth, thread_count, visited, to_visit,
                    all_internal, all_external, mailto_links, non_html_links,
                    done, current_batch, futures, pc, extracted, submitted,
                    fresh, site, p_url, p_links >>

NextDirectories == ApplyExtractDirectories

SpecDirectories == InitDirectories /\ [][NextDirectories]_vars

----------------------------------------------------------------------------
(* Properties *)

Returned == pc = "returned"

\* "exactly one leading literal www. removed when present"
RemoveWwwOnce(h) == IF startswith(h, WWW) THEN SubSeq(h, 5, Len(h)) ELSE h

FailureOutcomes == { "RequestException", "Exception", "status", "content_type" }

\* C1 as stated: with maxVisited = M > 0 the crawl ends with M <= |visited|
\* and |visited| < M + (size of the last dispatched batch).
C1_EndsWithAtLeastMax ==
    (Returned /\ max > 0) =>
        /\ max <= Cardinality(visited)
        /\ Cardinality(visited) < max + Cardinality(current_batch)

\* C1 amended: with maxVisited = M > 0 the crawl ends with
\* |visited| < M + (size of the last dispatched batch); it ends either on the
\* count stop, and then M <= |visited|, or with the frontier empty.
C1_BoundedOvershoot ==
    (Returned /\ max > 0) =>
        /\ Cardinality(visited) < max + Cardinality(current_batch)
        /\ done \/ to_visit = {}
        /\ done => max <= Cardinality(visited)

C1_Witness ==
    /\ Returned
    /\ max > 0
    /\ done
    /\ Cardinality(current_batch) >= 2
    /\ \E u \in current_batch : futures[u].state = "finished"

\* C2: with maxVisited = M > 0 and fair completion of the dispatched tasks the
\* crawl returns, although every fetched page yields never-seen internal URLs.
C2_Terminates == (max > 0) ~> Returned

C2_Witness ==
    /\ Returned
    /\ done
    /\ fresh > max
    /\ \E u \in current_batch :
          /\ futures[u].outcome = "ok"
          /\ futures[u].result.internal \ (visited \cup submitted) # {}

\* C3 as stated: with maxDepth > 0 no URL deeper than maxDepth is ever in the
\* frontier or dispatched.
C3_NoDeepURLQueued ==
    depth > 0 => \A u \in to_visit \cup current_batch : get_path_depth(u) <= depth

\* C3 amended: with maxDepth > 0 no URL other than the seed that is deeper than
\* maxDepth is ever in the frontier or dispatched.
C3_NoDeepLinkQueued ==
    depth > 0 =>
        \A u \in (to_visit \cup current_batch) \ { start_url } : get_path_depth(u) <= depth

C3_Witness ==
    /\ depth > 0
    /\ \E l \in all_internal : get_path_depth(l) > depth
    /\ \E u \in current_batch : u # start_url /\ futures[u].outcome = "ok"

\* C4 as stated: with maxDepth > 0 and maxVisited = 0, when the crawl ends every
\* internal link deeper than maxDepth that a fetched page yielded is in
\* all_internal and was never queued.
C4_DeepLinksRecordedNeverQueued ==
    (Returned /\ depth > 0 /\ max = 0) =>
        \A l \in extracted :
            (SameHost(l, start_url) /\ get_path_depth(l) > depth) =>
                (l \in all_internal /\ l \notin submitted)

\* C4 amended: ... is in all_internal and, unless it is the seed URL, was
\* never queued.
C4_DeepLinksRecorded ==
    (Returned /\ depth > 0 /\ max = 0) =>
        \A l \in extracted :
            (SameHost(l, start_url) /\ get_path_depth(l) > depth) =>
                (l \in all_internal /\ (l # start_url => l \notin submitted))

C4_Witness ==
    /\ Returned
    /\ depth > 0
    /\ max = 0
    /\ \E l \in extracted :
          /\ SameHost(l, start_url)
          /\ get_path_depth(l) > depth
          /\ l # start_url
    /\ Cardinality(visited) >= 2

\* C5: only URLs whose hostname equals the seed's after removing one leading
\* "www." from each are queued or requested, and no link recorded as external
\* is ever queued.
C5_OnlySeedHostFetched ==
    /\ \A u \in to_visit \cup submitted :
          RemoveWwwOnce(u.host) = RemoveWwwOnce(start_url.host)
    /\ \A u \in DOMAIN futures :
          futures[u].outcome \notin { "none", "skipped" } =>
              RemoveWwwOnce(u.host) = RemoveWwwOnce(start_url.host)
    /\ \A l \in all_external : l \notin to_visit \cup submitted

\* C6: a task whose request raised, or returned a status outside [200,400) or
\* a non-HTML content type, has an empty result; committing it adds its URL to
\* visited, leaves the frontier and the four accumulators as they were, leaves
\* the other tasks of the batch as they were, and stops the crawl only on the
\* count condition.
C6_FailureIsLocal ==
    [][ \A u \in DOMAIN futures :
          ( /\ pc = "as_completed"
            /\ futures[u].state = "finished"
            /\ futures[u].outcome \in FailureOutcomes
            /\ futures'[u].state = "yielded" )
          => /\ futures[u].result = EmptyResult(u)
             /\ visited' = visited \cup { u }
             /\ UNCHANGED << to_visit, all_internal, all_external,
                             mailto_links, non_html_links >>
             /\ \A w \in DOMAIN futures \ { u } : futures'[w] = futures[w]
             /\ pc' \in { "as_completed", "loop" }
             /\ done' => (max # 0 /\ Cardinality(visited') >= max) ]_vars

C6_Witness ==
    /\ ~done
    /\ pc = "as_completed"
    /\ \E u, w \in DOMAIN futures :
          /\ futures[u].state = "yielded"
          /\ futures[u].outcome = "status"
          /\ futures[u].result = EmptyResult(u)
          /\ u \in visited
          /\ futures[w].state # "yielded"

\* C7: for every integer -m the count stop fires only if maxVisited > 0 and
\* |visited| >= maxVisited; with maxVisited = 0 the crawl ends only with the
\* frontier empty.
C7_StopsOnlyOnPositiveMax ==
    /\ done => (max > 0 /\ Cardinality(visited) >= max)
    /\ (Returned /\ max = 0) => to_visit = {}

\* C8: no step removes a URL from visited.
C8_VisitedOnlyGrows == [][visited \subseteq visited']_vars

C8_Witness ==
    /\ Cardinality(visited) >= 2
    /\ pc = "as_completed"
    /\ submitted # current_batch

\* C9: get_hostname returns the hostname with exactly one leading "www."
\* removed when present, and normalizing its result again changes nothing.
C9_StripsExactlyOneWww ==
    p_pc = "get_hostname" =>
        /\ p_ret = RemoveWwwOnce(p_url.host)
        /\ get_hostname([p_url EXCEPT !.host = p_ret]) = p_ret

\* C10: split_links puts a link in the internal set iff its hostname equals
\* the seed's after removing at most one leading "www." from each, and every
\* link is in exactly one of the two sets.
C10_InternalIffSameHost ==
    p_pc = "split_links" =>
        \A l \in p_links :
            /\ l \in p_ret.internal <=>
                   RemoveWwwOnce(l.host) = RemoveWwwOnce(p_url.host)
            /\ l \in p_ret.internal <=> l \notin p_ret.external

\* C11: extract_links puts every reference that starts with sms:, tel:,
\* javascript:, data: or # verbatim in the non-crawlable set and never resolves
\* it into the raw links, every mailto: reference verbatim in the mailto set,
\* and resolves every other reference against the page URL into the raw links.
ClaimedNonCrawlable == { "sms:", "tel:", "javascript:", "data:", "#" }

C11_ThreeWayClassification ==
    p_pc = "extract_links" =>
        /\ p_ret.non_htmls = { r \in p_links.refs : r.prefix \in ClaimedNonCrawlable }
        /\ p_ret.mailtos = { r \in p_links.refs : r.prefix = "mailto:" }
        /\ p_ret.links =
              { urljoin(p_url, r) :
                  r \in { x \in p_links.refs :
                            x.prefix \notin ClaimedNonCrawlable \cup { "mailto:" } } }

\* C12: extract_directories maps every link that ends in "/" to itself, and
\* every other link to the same URL cut just after the last "/" of its path
\* (a link without a path to its root), so links with the same parent directory
\* give one entry.
EndsInSlash(l) == l.query = 0 /\ endswith_slash(l.path)

ParentDirectory(l) ==
    [l EXCEPT !.query = 0,
              !.path = IF endswith_slash(l.path) THEN l.path
                       ELSE IF Len(l.path) >= 2
                            THEN SubSeq(l.path, 1, Len(l.path) - 1) \o << "" >>
                            ELSE << "", "" >>]

C12_DirectoryOfEachLink ==
    p_pc = "extract_directories" =>
        p_ret = { IF EndsInSlash(l) THEN l ELSE ParentDirectory(l) : l \in p_links }

\* C13: whenever a batch is about to be snapshotted from the frontier, none of
\* its URLs is already in visited, and none was submitted in an earlier batch.
C13_BatchNeverRevisits ==
    (pc = "loop" /\ LoopCondition(to_visit, done)) =>
        to_visit \cap (visited \cup submitted) = {}

\* C14: every completion the as_completed loop processes, the one that reaches
\* the max-visited threshold included, has its internal, external, mailto and
\* non-HTML links unioned into the accumulators.
C14_TriggeringResultCommitted ==
    [][ \A u \in DOMAIN futures :
          ( /\ pc = "as_completed"
            /\ futures[u].state = "finished"
            /\ u \in DOMAIN futures'
            /\ futures'[u].state = "yielded" )
          => /\ futures[u].result.internal \subseteq all_internal'
             /\ futures[u].result.external \subseteq all_external'
             /\ futures[u].result.mailtos \subseteq mailto_links'
             /\ futures[u].result.non_htmls \subseteq non_html_links' ]_vars

\* C15: unless the max-count stop fired, when a batch is dispatched every task
\* of the batch before it has completed and been committed (its URL in visited,
\* its links in the accumulators, its eligible links in the frontier), and the
\* new batch is exactly the frontier as the last commit left it.
C15_BatchesSequential ==
    [][ (pc = "loop" /\ pc' = "as_completed") =>
          /\ ~done
          /\ \A u \in DOMAIN futures :
                /\ futures[u].state = "yielded"
                /\ u \in visited
                /\ futures[u].result.internal \subseteq all_internal
                /\ futures[u].result.external \subseteq all_external
                /\ futures[u].result.mailtos \subseteq mailto_links
                /\ futures[u].result.non_htmls \subseteq non_html_links
                /\ \A l \in futures[u].result.internal :
                      (l \notin visited /\ (depth = 0 \/ get_path_depth(l) <= depth))
                          => l \in to_visit
          /\ current_batch' = to_visit
          /\ DOMAIN futures' = to_visit
          /\ \A u \in to_visit : futures'[u].state = "pending" ]_vars

C15_Witness ==
    /\ pc = "as_completed"
    /\ ~done
    /\ Cardinality(current_batch) >= 2
    /\ current_batch # submitted
    /\ \A u \in current_batch : futures[u].state = "pending"

\* C16: a worker task leaves visited, the frontier, the termination flag and
\* the four accumulators unchanged; they change only in a commit step, which
\* processes exactly one completed result.
Shared == << visited, to_visit, done, all_internal, all_external,
             mailto_links, non_html_links >>

WorkerStep ==
    \E u \in DOMAIN futures :
        /\ u \in DOMAIN futures'
        /\ \/ futures[u].state = "pending" /\ futures'[u].state = "running"
           \/ futures[u].state = "running" /\ futures'[u].state = "finished"

CommitStep ==
    /\ pc = "as_completed"
    /\ DOMAIN futures' = DOMAIN futures
    /\ \E u \in DOMAIN futures :
          /\ futures[u].state = "finished"
          /\ futures'[u].state = "yielded"
          /\ \A w \in DOMAIN futures \ { u } : futures'[w] = futures[w]

SnapshotStep ==
    /\ pc = "loop"
    /\ pc' = "as_completed"
    /\ to_visit' = {}
    /\ UNCHANGED << visited, done, all_internal, all_external,
                    mailto_links, non_html_links >>

C16_OnlyCommitWrites ==
    [][ /\ WorkerStep => UNCHANGED Shared
        /\ Shared' # Shared => CommitStep ]_vars

\* C16 amended: ... they change only in a commit step, which processes exactly
\* one completed result, or when the scheduler snapshots a batch, which clears
\* the frontier and nothing else.
C16_OnlySchedulerWrites ==
    [][ /\ WorkerStep => UNCHANGED Shared
        /\ Shared' # Shared => (CommitStep \/ SnapshotStep) ]_vars

C16_Witness ==
    /\ pc = "as_completed"
    /\ Cardinality(visited) >= 2
    /\ all_internal # {}
    /\ \E u, w \in DOMAIN futures :
          /\ futures[u].state = "yielded"
          /\ futures[w].state = "finished"


\* the site's answer for one page, as process_url reports it
SiteResult(u) == process_url(u, start_url, fetch(u))

SiteLinks(S) == UNION { SiteResult(u).internal : u \in S }

RECURSIVE SiteClosure(_)
\* the pages reachable from S through internal links within the depth limit
SiteClosure(S) ==
    LET step == S \cup { l \in SiteLinks(S) : depth = 0 \/ get_path_depth(l) <= depth }
    IN  IF step = S THEN S ELSE SiteClosure(step)

SiteReachable == SiteClosure({ start_url })

\* C17: with -m 0 on a site that answers each URL alike, what crawl_website
\* returns is determined by the site, the seed and the depth alone: the visited
\* set is the set of reachable pages and each link set is the union of what
\* those pages yield, whatever the completion order and the worker count, so
\* two runs that differ only in completion order return equal results.
C17_ResultIndependentOfOrder ==
    (Returned /\ max = 0) =>
        /\ visited = SiteReachable
        /\ all_internal = UNION { SiteResult(u).internal : u \in SiteReachable }
        /\ all_external = UNION { SiteResult(u).external : u \in SiteReachable }
        /\ mailto_links = UNION { SiteResult(u).mailtos : u \in SiteReachable }
        /\ non_html_links = UNION { SiteResult(u).non_htmls : u \in SiteReachable }

C17_Witness ==
    /\ Returned
    /\ max = 0
    /\ thread_count >= 2
    /\ Cardinality(visited) = 3
    /\ Cardinality(current_batch) = 2
    /\ all_external # {}
    /\ mailto_links # {}

\* C18: with -m 0 on a finite site and fair completion of the dispatched
\* tasks, the crawl returns with the frontier empty and the stop flag unset,
\* also when pages link to themselves and to each other.
C18_TerminatesByExhaustion ==
    (max = 0) ~> (Returned /\ to_visit = {} /\ ~done)

C18_Witness ==
    /\ Returned
    /\ max = 0
    /\ to_visit = {}
    /\ ~done
    /\ \E u, w \in visited :
          /\ u # w
          /\ u \in SiteResult(u).internal
          /\ w \in SiteResult(u).internal
          /\ u \in SiteResult(w).internal

\* C19: with -m M > 0 the visited set never holds more than M URLs, in any
\* state of the crawl, whatever the batch size and the worker count.
C19_VisitedAtMostMax ==
    max > 0 => Cardinality(visited) <= max

C19_Witness ==
    /\ max >= 2
    /\ Cardinality(visited) = max
    /\ done
    /\ thread_count >= 2
    /\ Cardinality(current_batch) >= 2
    /\ Running # {}

====
